---- MODULE Spec2Model ----
(***************************************************************************)
(* HTTP request tools of src/tools/api/requests.ts: GetRequestTool,        *)
(* PostRequestTool, PutRequestTool, PatchRequestTool, DeleteRequestTool.   *)
(*                                                                         *)
(* Each tool's execute() hands one closure to safeExecute; the actions     *)
(* below model that closure.  A closure runs in three steps separated by   *)
(* its two awaits: the synchronous part up to and including the call of    *)
(* the HTTP capability, the settling of that call, and the settling of     *)
(* response.text().                                                        *)
(*                                                                         *)
(* src/tools/api/requests2.js is the same five tools in JavaScript; its     *)
(* POST tests `value.path` where requests.ts tests `'path' in value` and   *)
(* has no last `|| 'file'`, which makes no difference for a path that can  *)
(* be read.  The model follows requests.ts.                                *)
(*                                                                         *)
(* Strings are sequences of atoms (one atom per character or lexical       *)
(* token), so that startsWith, split, substring, length and JSON.parse     *)
(* are computed and not assumed.  A JavaScript value is a record           *)
(* [kind, body]: kind is the typeof/constructor, body the atoms.           *)
(***************************************************************************)
EXTENDS Integers, Sequences, FiniteSets, TLC

\* ------------------------------------------------------------------ bounds

\* longest enumerated `value` string, in atoms
MaxStrLen == 2
\* most entries of a `multipart` mapping
MaxFields == 2
\* longest response body returned by the HTTP capability, in characters
MaxTextLen == 1001

\* ------------------------------------------------------- JavaScript values

JsVal(kind, body) == [kind |-> kind, body |-> body]

Undefined == JsVal("undefined", <<>>)

Null == JsVal("null", <<>>)

Str(s) == JsVal("string", s)

Num(n) == JsVal("number", <<ToString(n)>>)

Bool(b) == JsVal("boolean", <<ToString(b)>>)

\* ToBoolean: what `x ? a : b`, `x && y` and `x || y` test
Truthy(v) ==
    CASE v.kind = "undefined" -> FALSE
      [] v.kind = "null"      -> FALSE
      [] v.kind = "string"    -> v.body # <<>>
      [] v.kind = "number"    -> v.body # <<"0">>
      [] v.kind = "boolean"   -> v.body = <<"TRUE">>
      [] OTHER                -> TRUE

\* a || b
Or(a, b) == IF Truthy(a) THEN a ELSE b

\* String.prototype.startsWith with a one-atom prefix
StartsWith(s, c) == Len(s) >= 1 /\ s[1] = c

\* the test both the POST branch and the PUT/PATCH pre-flight apply to value
LooksLikeJson(v) ==
    /\ v.kind = "string"
    /\ (StartsWith(v.body, "{") \/ StartsWith(v.body, "["))

\* ------------------------------------------------------------- JSON.parse

ParseOk(pos, out) == [ok |-> TRUE, pos |-> pos, out |-> out, message |-> ""]

ParseFail(msg) == [ok |-> FALSE, pos |-> 0, out |-> <<>>, message |-> msg]

UnexpectedEnd == "Unexpected end of JSON input"

UnexpectedToken == "Unexpected token in JSON"

RECURSIVE SkipWs(_, _)
SkipWs(s, i) == IF i <= Len(s) /\ s[i] = " " THEN SkipWs(s, i + 1) ELSE i

RECURSIVE ParseValue(_, _)
RECURSIVE ParseElements(_, _, _, _)
RECURSIVE ParseMembers(_, _, _, _)

\* value = object / array / number / string, starting at atom i.
\* out is the value in canonical form: its atoms without insignificant
\* whitespace.
ParseValue(s, i) ==
    IF i > Len(s) THEN ParseFail(UnexpectedEnd)
    ELSE CASE s[i] = "1"     -> ParseOk(i + 1, <<"1">>)
           [] s[i] = "\"a\"" -> ParseOk(i + 1, <<"\"a\"">>)
           [] s[i] = "["     -> ParseElements(s, SkipWs(s, i + 1), <<"[">>, TRUE)
           [] s[i] = "{"     -> ParseMembers(s, SkipWs(s, i + 1), <<"{">>, TRUE)
           [] OTHER          -> ParseFail(UnexpectedToken)

\* array = "[" ws [ value *( ws "," ws value ) ] ws "]", after the "["
ParseElements(s, i, acc, first) ==
    IF i > Len(s) THEN ParseFail(UnexpectedEnd)
    ELSE IF first /\ s[i] = "]" THEN ParseOk(i + 1, acc \o <<"]">>)
    ELSE LET v == ParseValue(s, i)
             j == SkipWs(s, v.pos)
         IN  IF ~v.ok THEN v
             ELSE IF j > Len(s) THEN ParseFail(UnexpectedEnd)
             ELSE IF s[j] = "]" THEN ParseOk(j + 1, acc \o v.out \o <<"]">>)
             ELSE IF s[j] = ","
                  THEN ParseElements(s, SkipWs(s, j + 1), acc \o v.out \o <<",">>, FALSE)
             ELSE ParseFail(UnexpectedToken)

\* object = "{" ws [ member *( ws "," ws member ) ] ws "}", after the "{";
\* member = string ws ":" ws value
ParseMembers(s, i, acc, first) ==
    IF i > Len(s) THEN ParseFail(UnexpectedEnd)
    ELSE IF first /\ s[i] = "}" THEN ParseOk(i + 1, acc \o <<"}">>)
    ELSE IF s[i] # "\"a\"" THEN ParseFail(UnexpectedToken)
    ELSE LET c == SkipWs(s, i + 1)
         IN  IF c > Len(s) THEN ParseFail(UnexpectedEnd)
             ELSE IF s[c] # ":" THEN ParseFail(UnexpectedToken)
             ELSE LET v == ParseValue(s, SkipWs(s, c + 1))
                      j == SkipWs(s, v.pos)
                      sofar == acc \o <<"\"a\"", ":">> \o v.out
                  IN  IF ~v.ok THEN v
                      ELSE IF j > Len(s) THEN ParseFail(UnexpectedEnd)
                      ELSE IF s[j] = "}" THEN ParseOk(j + 1, sofar \o <<"}">>)
                      ELSE IF s[j] = ","
                           THEN ParseMembers(s, SkipWs(s, j + 1), sofar \o <<",">>, FALSE)
                      ELSE ParseFail(UnexpectedToken)

ParsedKind(out) ==
    CASE out[1] = "{" -> "object"
      [] out[1] = "[" -> "array"
      [] out[1] = "1" -> "number"
      [] OTHER        -> "string"

\* JSON.parse(text): [ok, value] or [~ok, message] (the SyntaxError thrown)
JSONParse(s) ==
    LET v == ParseValue(s, SkipWs(s, 1))
        j == SkipWs(s, v.pos)
    IN  IF ~v.ok THEN [ok |-> FALSE, value |-> Undefined, message |-> v.message]
        ELSE IF j <= Len(s)
             THEN [ok |-> FALSE, value |-> Undefined, message |-> UnexpectedToken]
        ELSE [ok |-> TRUE, value |-> JsVal(ParsedKind(v.out), v.out), message |-> ""]

\* ------------------------------------------------ strings, objects, files

\* String.prototype.split(sep): the pieces between the separators, from atom i
\* on, cur being the piece under way
RECURSIVE SplitFrom(_, _, _, _)
SplitFrom(s, sep, i, cur) ==
    IF i > Len(s) THEN <<cur>>
    ELSE IF s[i] = sep THEN <<cur>> \o SplitFrom(s, sep, i + 1, <<>>)
    ELSE SplitFrom(s, sep, i + 1, Append(cur, s[i]))

Split(s, sep) == SplitFrom(s, sep, 1, <<>>)

\* Array.prototype.pop() of a non-empty array: its last element
Pop(arr) == arr[Len(arr)]

Min(a, b) == IF a <= b THEN a ELSE b

\* String.prototype.substring(from, to), 0 <= from <= to
Substring(s, from, to) == SubSeq(s, from + 1, Min(to, Len(s)))

EmptyObject == <<>>

\* { ...a, ...b }: the keys of both, b's value where both define a key
Spread(a, b) ==
    [k \in (DOMAIN a) \cup (DOMAIN b) |-> IF k \in DOMAIN b THEN b[k] ELSE a[k]]

\* obj[key] = val
SetKey(obj, key, val) ==
    [k \in (DOMAIN obj) \cup {key} |-> IF k = key THEN val ELSE obj[k]]

\* obj.key: undefined when obj has no such key
Prop(obj, key) == IF key \in DOMAIN obj THEN obj[key] ELSE Undefined

\* The file system the tool reads: path -> contents.  A path that is not in
\* the domain (no such file, a directory, the empty path) cannot be read.
FsFiles ==
    (<<"/", "d", "/", "a.txt">> :> <<"A", "1">>) @@ (<<"b.bin">> :> <<"B">>)

\* fs.readFileSync(path): the contents as a Buffer, or a throw
ReadFileSync(path) ==
    IF path \in DOMAIN FsFiles
    THEN [ok |-> TRUE, buffer |-> JsVal("Buffer", FsFiles[path]), message |-> ""]
    ELSE [ok |-> FALSE, buffer |-> Undefined, message |-> "ENOENT: no such file or directory"]

\* ------------------------------------------------------- response envelope

\* createSuccessResponse(lines)
createSuccessResponse(lines) == [isError |-> FALSE, content |-> lines]

\* createErrorResponse(message)
createErrorResponse(message) == [isError |-> TRUE, content |-> <<message>>]

\* the cut-off of the displayed response body
TruncLimit == 1000

\* 'Unable to get response text', one atom per character
UnableToGetText ==
    <<"U", "n", "a", "b", "l", "e", " ", "t", "o", " ", "g", "e", "t", " ",
      "r", "e", "s", "p", "o", "n", "s", "e", " ", "t", "e", "x", "t">>

\* ResponseLine with the ellipsis from the cut-off on (>= for >)
ResponseLineFromLimit(responseText) ==
    <<"Response: ">> \o Substring(responseText, 0, TruncLimit)
        \o (IF Len(responseText) >= TruncLimit THEN <<"...">> ELSE <<>>)

\* `Response: ${responseText.substring(0, 1000)}${responseText.length > 1000 ? '...' : ''}`
ResponseLine(responseText) ==
    <<"Response: ">> \o Substring(responseText, 0, TruncLimit)
        \o (IF Len(responseText) > TruncLimit THEN <<"...">> ELSE <<>>)

\* the three lines every verb returns once it has a response
Summary(verbName, url, resp, responseText) ==
    createSuccessResponse(<<
        <<verbName \o " request to ", url>>,
        <<"Status: ", ToString(resp.status), " ", resp.statusText>>,
        ResponseLine(responseText) >>)

\* `Failed to parse request body: ${error.message}`
ParseFailure(message) ==
    createErrorResponse(<<"Failed to parse request body: ", message>>)

\* ------------------------------------------------------ request assembling

\* `Bearer ${args.token}`
Bearer(token) == <<"Bearer ">> \o token.body

\* AuthHeader without the test of the token
AuthHeaderUnconditional(a) == "Authorization" :> Bearer(a.token)

\* ...(args.token ? { Authorization: `Bearer ${args.token}` } : {})
AuthHeader(a) ==
    IF Truthy(a.token) THEN "Authorization" :> Bearer(a.token) ELSE EmptyObject

\* ...(args.headers || {})
CallerHeaders(a) == IF a.headers.present THEN a.headers.map ELSE EmptyObject

ApplicationJson == <<"application/json">>

\* headers of GET, POST (before the body is encoded) and DELETE
PlainHeaders(a) == Spread(AuthHeader(a), CallerHeaders(a))

\* headers of PUT and PATCH
JsonHeaders(a) ==
    Spread(Spread("Content-Type" :> ApplicationJson, AuthHeader(a)), CallerHeaders(a))

\* no envelope (yet)
NoEnvelope == [isError |-> FALSE, content |-> <<>>]

\* how the synchronous part of a closure ends: it calls the HTTP capability
\* with options, returns an envelope, or throws
ToCall(options, reads) ==
    [exit |-> "call", options |-> options, envelope |-> NoEnvelope,
     message |-> "", reads |-> reads]

ToReturn(envelope, reads) ==
    [exit |-> "return", options |-> EmptyObject, envelope |-> envelope,
     message |-> "", reads |-> reads]

ToThrow(message, reads) ==
    [exit |-> "throw", options |-> EmptyObject, envelope |-> NoEnvelope,
     message |-> message, reads |-> reads]

\* value && typeof value === 'object' && 'path' in value
IsFileField(f) ==
    /\ Truthy(f.val)
    /\ f.val.kind = "object"
    /\ "path" \in DOMAIN f.props

\* FileField that never looks at the explicit name
FileFieldPathNameOnly(f, buffer) ==
    [name     |-> Or(Str(Pop(Split(Prop(f.props, "path").body, "/"))), Str(<<"file">>)),
     mimeType |-> Or(Prop(f.props, "contentType"), Str(<<"application/octet-stream">>)),
     buffer   |-> buffer]

\* the object built for a file field, given the bytes read
FileField(f, buffer) ==
    [name     |-> Or(Or(Prop(f.props, "name"),
                        Str(Pop(Split(Prop(f.props, "path").body, "/")))),
                     Str(<<"file">>)),
     mimeType |-> Or(Prop(f.props, "contentType"), Str(<<"application/octet-stream">>)),
     buffer   |-> buffer]

\* EncodeMultipart with the read inside a try/catch that drops the field
RECURSIVE EncodeMultipartSkipping(_, _, _, _)
EncodeMultipartSkipping(entries, i, out, reads) ==
    IF i > Len(entries) THEN [ok |-> TRUE, multipart |-> out, reads |-> reads, message |-> ""]
    ELSE LET key == entries[i].key
             f == entries[i].value
             path == Prop(f.props, "path").body
             r == ReadFileSync(path)
         IN  IF IsFileField(f)
             THEN EncodeMultipartSkipping(entries, i + 1,
                      IF r.ok
                      THEN SetKey(out, key,
                                  [name |-> Or(Prop(f.props, "name"), Str(<<"file">>)),
                                   mimeType |-> Or(Prop(f.props, "contentType"),
                                                   Str(<<"application/octet-stream">>)),
                                   buffer |-> r.buffer])
                      ELSE out,
                      Append(reads, path))
             ELSE EncodeMultipartSkipping(entries, i + 1, SetKey(out, key, f), reads)

\* the for-loop over Object.entries(args.multipart), from entry i on: out is
\* options.multipart so far, reads the paths given to fs.readFileSync so far
RECURSIVE EncodeMultipart(_, _, _, _)
EncodeMultipart(entries, i, out, reads) ==
    IF i > Len(entries) THEN [ok |-> TRUE, multipart |-> out, reads |-> reads, message |-> ""]
    ELSE LET key == entries[i].key
             f == entries[i].value
         IN  IF IsFileField(f)
             THEN LET path == Prop(f.props, "path").body
                      r == ReadFileSync(path)
                  IN  IF r.ok
                      THEN EncodeMultipart(entries, i + 1,
                                           SetKey(out, key, FileField(f, r.buffer)),
                                           Append(reads, path))
                      ELSE [ok |-> FALSE, multipart |-> out,
                            reads |-> Append(reads, path), message |-> r.message]
             ELSE EncodeMultipart(entries, i + 1, SetKey(out, key, f), reads)

\* GET: the options and the call
GetPrepare(a) == ToCall([headers |-> PlainHeaders(a)], <<>>)

\* DELETE: the options and the call
DeletePrepare(a) == ToCall([headers |-> PlainHeaders(a)], <<>>)

\* PostPrepare with the branches the other way round: value first
PostPrepareValueFirst(a) ==
    LET headers == Spread(AuthHeader(a), CallerHeaders(a))
        json == SetKey(headers, "Content-Type", ApplicationJson)
    IN  IF a.value # Undefined
        THEN IF LooksLikeJson(a.value)
             THEN LET p == JSONParse(a.value.body)
                  IN  IF p.ok
                      THEN ToCall([headers |-> json, data |-> p.value], <<>>)
                      ELSE ToReturn(ParseFailure(p.message), <<>>)
             ELSE ToCall([headers |-> json, data |-> a.value], <<>>)
        ELSE IF a.multipart.present
        THEN ToCall([headers |-> headers,
                     multipart |-> [i \in {} |-> Undefined]], <<>>)
        ELSE ToCall([headers |-> headers], <<>>)

\* POST: multipart first, else value, else headers alone
PostPrepare(a) ==
    LET headers == PlainHeaders(a)
    IN  IF a.multipart.present
        THEN LET m == EncodeMultipart(a.multipart.entries, 1, EmptyObject, <<>>)
             IN  IF m.ok
                 THEN ToCall([headers |-> headers, multipart |-> m.multipart], m.reads)
                 ELSE ToThrow(m.message, m.reads)
        ELSE IF a.value # Undefined
        THEN LET json == SetKey(headers, "Content-Type", ApplicationJson)
             IN  IF LooksLikeJson(a.value)
                 THEN LET p == JSONParse(a.value.body)
                      IN  IF p.ok
                          THEN ToCall([headers |-> json, data |-> p.value], <<>>)
                          ELSE ToReturn(ParseFailure(p.message), <<>>)
                 ELSE ToCall([headers |-> json, data |-> a.value], <<>>)
        ELSE ToCall([headers |-> headers], <<>>)

\* PreflightOk without the check
PreflightOkUnchecked(a) == TRUE

\* the pre-flight check of PUT and PATCH: the value parses, or need not
PreflightOk(a) ==
    IF Truthy(a.value) /\ LooksLikeJson(a.value) THEN JSONParse(a.value.body).ok ELSE TRUE

\* PutPrepare sending what JSON.parse returned, as POST does
PutPrepareParsed(a) ==
    IF Truthy(a.value) /\ LooksLikeJson(a.value)
    THEN LET p == JSONParse(a.value.body)
         IN  IF p.ok
             THEN ToCall([data |-> p.value,
                          headers |-> Spread(Spread("Content-Type" :> ApplicationJson,
                                                    AuthHeader(a)), CallerHeaders(a))], <<>>)
             ELSE ToReturn(ParseFailure(p.message), <<>>)
    ELSE ToCall([data |-> a.value,
                 headers |-> Spread(Spread("Content-Type" :> ApplicationJson,
                                           AuthHeader(a)), CallerHeaders(a))], <<>>)

\* PUT: pre-flight, then the value as it came
PutPrepare(a) ==
    IF ~PreflightOk(a)
    THEN ToReturn(ParseFailure(JSONParse(a.value.body).message), <<>>)
    ELSE ToCall([data |-> a.value, headers |-> JsonHeaders(a)], <<>>)

\* PATCH: pre-flight, then the value as it came
PatchPrepare(a) ==
    IF ~PreflightOk(a)
    THEN ToReturn(ParseFailure(JSONParse(a.value.body).message), <<>>)
    ELSE ToCall([data |-> a.value, headers |-> JsonHeaders(a)], <<>>)

\* ------------------------------------------------------------------ inputs

Url == "http://api.test/items"

\* args.token: absent, empty, set
Tokens == {Undefined, Str(<<>>), Str(<<"t1">>)}

Absent == [present |-> FALSE, map |-> EmptyObject]

Given(map) == [present |-> TRUE, map |-> map]

\* args.headers: absent, empty, an Authorization of the caller's (one of them
\* the very value the tool composes from token t1), a Content-Type, several
HeaderArgs ==
    { Absent,
      Given(EmptyObject),
      Given("Authorization" :> <<"Basic ", "u1">>),
      Given("Authorization" :> <<"Bearer ", "t1">>),
      Given("Content-Type" :> <<"text/plain">>),
      Given(("Authorization" :> <<"Basic ", "u1">>)
            @@ ("Content-Type" :> <<"text/plain">>) @@ ("X-Trace" :> <<"7">>)) }

JsonChars == {"{", "}", "[", "]", " "}

\* every string of at most n atoms of JsonChars
StringsUpTo(n) == UNION { [1..k -> JsonChars] : k \in 0..n }

\* '{"a":1}', '{ "a": 1 }', '[1,1]' and '{invalid', '{"a":1', 'hello'
SampleStrings ==
    { <<"{", "\"a\"", ":", "1", "}">>,
      <<"{", " ", "\"a\"", ":", " ", "1", " ", "}">>,
      <<"[", "1", ",", "1", "]">>,
      <<"{", "i", "n", "v", "a", "l", "i", "d">>,
      <<"{", "\"a\"", ":", "1">>,
      <<"h", "e", "l", "l", "o">> }

\* args.value: absent, null, numbers, booleans, an object, strings
Values ==
    {Undefined, Null, Num(0), Num(1), Bool(FALSE), Bool(TRUE),
     JsVal("object", <<"{", "\"a\"", ":", "1", "}">>)}
        \cup {Str(s) : s \in StringsUpTo(MaxStrLen) \cup SampleStrings}

\* the values tried together with a multipart mapping
ValuesWithMultipart ==
    {Undefined, Str(<<"{", "i", "n", "v", "a", "l", "i", "d">>),
     Str(<<"h", "e", "l", "l", "o">>)}

Scalar(v) == [val |-> v, props |-> EmptyObject]

Object(props) == [val |-> JsVal("object", <<>>), props |-> props]

\* the values of a multipart entry: scalars; a file with name and content
\* type; files with neither, or with empty ones; a file that cannot be read
FieldValues ==
    { Scalar(Str(<<"s">>)),
      Scalar(Null),
      Object(("path" :> Str(<<"/", "d", "/", "a.txt">>)) @@ ("name" :> Str(<<"n.txt">>))
             @@ ("contentType" :> Str(<<"text/plain">>))),
      Object("path" :> Str(<<"/", "d", "/", "a.txt">>)),
      Object(("path" :> Str(<<"b.bin">>)) @@ ("name" :> Str(<<>>))
             @@ ("contentType" :> Str(<<>>))),
      Object(("path" :> Str(<<"/", "d", "/", "missing">>)) @@ ("name" :> Str(<<"n.txt">>))) }

\* the key of the i-th entry, in insertion order
FieldKey(i) == "field" \o ToString(i)

\* args.multipart: absent, or a mapping of at most MaxFields entries
MultipartArgs ==
    { [present |-> FALSE, entries |-> <<>>] }
        \cup { [present |-> TRUE,
                entries |-> [i \in DOMAIN vs |-> [key |-> FieldKey(i), value |-> vs[i]]]]
               : vs \in UNION { [1..k -> FieldValues] : k \in 0..MaxFields } }

NoMultipart == [present |-> FALSE, entries |-> <<>>]

Args(token, headers, value, multipart) ==
    [url |-> Url, token |-> token, headers |-> headers, value |-> value,
     multipart |-> multipart]

\* the arguments GET and DELETE read
PlainArgs == { Args(t, h, Undefined, NoMultipart) : t \in Tokens, h \in HeaderArgs }

\* the arguments PUT and PATCH read
ValueArgs == { Args(t, h, v, NoMultipart) : t \in Tokens, h \in HeaderArgs, v \in Values }

\* the arguments POST reads
PostArgs ==
    ValueArgs
        \cup { Args(t, h, v, m) : t \in Tokens, h \in HeaderArgs,
                                  v \in ValuesWithMultipart, m \in MultipartArgs }

\* what the HTTP capability answers: status() and statusText()
Responses ==
    { [status |-> 200, statusText |-> "OK"],
      [status |-> 404, statusText |-> "Not Found"] }


Digit(i) == <<"0", "1", "2", "3", "4", "5", "6", "7", "8", "9">>[(i % 10) + 1]

\* a response body of n characters
TextOf(n) == [i \in 1..n |-> Digit(i)]

\* the lengths of the response bodies: empty, and around the cut-off
TextLens == {0, TruncLimit - 1} \cup (TruncLimit..MaxTextLen)

\* the response bodies response.text() resolves with
Texts == { TextOf(n) : n \in TextLens }

\* ------------------------------------------------------------------- state

VARIABLES
    pc,            \* "idle", "awaitResponse", "awaitText", "done"
    verb,          \* the tool that is running: "GET", "POST", ...
    args,          \* its arguments
    reads,         \* the paths given to fs.readFileSync, in order
    calls,         \* the calls of the HTTP capability, in order
    response,      \* the response the capability resolved with
    textRead,      \* "none", "ok", "failed": how response.text() settled
    responseText,  \* the closure's responseText
    result         \* how the closure ended: outcome, envelope, error

vars == <<pc, verb, args, reads, calls, response, textRead, responseText, result>>

NoResponse == [status |-> 0, statusText |-> ""]

NoResult == [outcome |-> "none", envelope |-> NoEnvelope, error |-> ""]

Returned(envelope) == [outcome |-> "returned", envelope |-> envelope, error |-> ""]

Thrown(message) == [outcome |-> "thrown", envelope |-> NoEnvelope, error |-> message]

Init ==
    /\ pc = "idle"
    /\ verb = ""
    /\ args = Args(Undefined, Absent, Undefined, NoMultipart)
    /\ reads = <<>>
    /\ calls = <<>>
    /\ response = NoResponse
    /\ textRead = "none"
    /\ responseText = <<>>
    /\ result = NoResult

\* CallsOf with one retry
CallsOfWithRetry(method, a, prep) ==
    << [method |-> method, url |-> a.url, options |-> prep.options],
       [method |-> method, url |-> a.url, options |-> prep.options] >>

\* the calls `await apiContext.<method>(args.url, options)` makes
CallsOf(method, a, prep) ==
    << [method |-> method, url |-> a.url, options |-> prep.options] >>

\* A closure starts and runs to its first await, its return or its throw.
Begin(v, method, a, prep) ==
    /\ verb' = v
    /\ args' = a
    /\ reads' = prep.reads
    /\ response' = NoResponse
    /\ textRead' = "none"
    /\ responseText' = <<>>
    /\ IF prep.exit = "call"
       THEN /\ calls' = CallsOf(method, a, prep)
            /\ pc' = "awaitResponse"
            /\ result' = NoResult
       ELSE /\ calls' = <<>>
            /\ pc' = "done"
            /\ result' = IF prep.exit = "return" THEN Returned(prep.envelope)
                         ELSE Thrown(prep.message)

Get ==
    /\ pc = "idle"
    /\ \E a \in PlainArgs : Begin("GET", "get", a, GetPrepare(a))

Post ==
    /\ pc = "idle"
    /\ \E a \in PostArgs : Begin("POST", "post", a, PostPrepare(a))

Put ==
    /\ pc = "idle"
    /\ \E a \in ValueArgs : Begin("PUT", "put", a, PutPrepare(a))

Patch ==
    /\ pc = "idle"
    /\ \E a \in ValueArgs : Begin("PATCH", "patch", a, PatchPrepare(a))

Delete ==
    /\ pc = "idle"
    /\ \E a \in PlainArgs : Begin("DELETE", "delete", a, DeletePrepare(a))

\* the capability resolves: the closure goes on to `await response.text()`
HttpResolve ==
    /\ pc = "awaitResponse"
    /\ \E r \in Responses : response' = r
    /\ pc' = "awaitText"
    /\ UNCHANGED <<verb, args, reads, calls, textRead, responseText, result>>

\* the capability rejects: nothing in the closure catches it
HttpReject ==
    /\ pc = "awaitResponse"
    /\ pc' = "done"
    /\ result' = Thrown("TransportError")
    /\ UNCHANGED <<verb, args, reads, calls, response, textRead, responseText>>

\* what the closure returns once responseText is set
Finish(text) == Summary(verb, args.url, response, text)

\* response.text() resolves
TextResolve ==
    /\ pc = "awaitText"
    /\ \E text \in Texts :
          /\ responseText' = text
          /\ result' = Returned(Finish(text))
    /\ textRead' = "ok"
    /\ pc' = "done"
    /\ UNCHANGED <<verb, args, reads, calls, response>>

\* TextReject with no catch block: the rejection leaves the closure
TextRejectUncaught ==
    /\ pc = "awaitText"
    /\ responseText' = <<>>
    /\ result' = Thrown("ResponseBodyReadError")
    /\ textRead' = "failed"
    /\ pc' = "done"
    /\ UNCHANGED <<verb, args, reads, calls, response>>

\* response.text() rejects: the catch block sets the placeholder
TextReject ==
    /\ pc = "awaitText"
    /\ responseText' = UnableToGetText
    /\ result' = Returned(Finish(UnableToGetText))
    /\ textRead' = "failed"
    /\ pc' = "done"
    /\ UNCHANGED <<verb, args, reads, calls, response>>

\* the closure has settled and safeExecute has its outcome: nothing of the
\* invocation is kept for the next one
Settle ==
    /\ pc = "done"
    /\ pc' = "idle"
    /\ verb' = ""
    /\ args' = Args(Undefined, Absent, Undefined, NoMultipart)
    /\ reads' = <<>>
    /\ calls' = <<>>
    /\ response' = NoResponse
    /\ textRead' = "none"
    /\ responseText' = <<>>
    /\ result' = NoResult

Next ==
    \/ Get
    \/ Post
    \/ Put
    \/ Patch
    \/ Delete
    \/ HttpResolve
    \/ HttpReject
    \/ TextResolve
    \/ TextReject
    \/ Settle

Spec == Init /\ [][Next]_vars

\* ------------------------------------------------------------------ claims

\* an invocation has started and has not been handed back yet
Running == pc # "idle"

\* the capability has been called (in this invocation)
Called == Len(calls) >= 1

\* the options of the first call
Sent == calls[1].options

\* the headers of the first call
SentHeaders == calls[1].options.headers

\* value is a string that begins with { or [ and is not JSON
ValueIsBadJson ==
    /\ args.value.kind = "string"
    /\ Len(args.value.body) >= 1
    /\ args.value.body[1] \in {"{", "["}
    /\ ~JSONParse(args.value.body).ok

\* value is a string that begins with { or [ and is JSON
ValueIsGoodJson ==
    /\ args.value.kind = "string"
    /\ Len(args.value.body) >= 1
    /\ args.value.body[1] \in {"{", "["}
    /\ JSONParse(args.value.body).ok

\* the closure returned the error envelope of a parse failure
ParseErrorReturned ==
    /\ pc = "done"
    /\ result.outcome = "returned"
    /\ result.envelope.isError
    /\ Len(result.envelope.content) = 1
    /\ result.envelope.content[1][1] = "Failed to parse request body: "
    /\ result.envelope.content[1][2] \in {UnexpectedEnd, UnexpectedToken}

\* C1 as stated: for POST, PUT and PATCH, whenever value is a string that
\* begins with { or [ and does not parse as JSON, the invocation returns an
\* error envelope carrying the parse failure and the capability is never called.
C1_AsStated ==
    (Running /\ verb \in {"POST", "PUT", "PATCH"} /\ ValueIsBadJson)
        => (ParseErrorReturned /\ calls = <<>>)

\* C1, amended: the same for PUT and PATCH, and for POST when no multipart is
\* given; with multipart, POST does not look at value.
C1_ParseFailureShortCircuits ==
    (/\ Running
     /\ verb \in {"POST", "PUT", "PATCH"}
     /\ ValueIsBadJson
     /\ ~(verb = "POST" /\ args.multipart.present))
        => (ParseErrorReturned /\ calls = <<>>)

C1_Witness ==
    /\ verb = "POST"
    /\ ~args.multipart.present
    /\ args.value = Str(<<"{", "i", "n", "v", "a", "l", "i", "d">>)
    /\ ParseErrorReturned
    /\ calls = <<>>

\* some file field of multipart names a path that cannot be read
SomeFileUnreadable ==
    \E i \in DOMAIN args.multipart.entries :
        LET f == args.multipart.entries[i].value
        IN  /\ f.val.kind = "object"
            /\ "path" \in DOMAIN f.props
            /\ f.props["path"].body \notin DOMAIN FsFiles

\* the invocation ends before the request: the body does not parse, or a
\* multipart file cannot be read
EndsEarly ==
    \/ verb \in {"PUT", "PATCH"} /\ ValueIsBadJson
    \/ verb = "POST" /\ ~args.multipart.present /\ ValueIsBadJson
    \/ verb = "POST" /\ args.multipart.present /\ SomeFileUnreadable

\* C2 as stated: every invocation of a verb tool performs exactly one call of
\* the HTTP capability, never zero and never more, on every path.
C2_AsStated == pc = "done" => Len(calls) = 1

\* C2, amended: an invocation never calls the capability more than once; it
\* calls it exactly once unless it ends early (value does not parse, or a
\* multipart file cannot be read), and then it does not call it at all.
C2_AtMostOneCall ==
    /\ Len(calls) <= 1
    /\ Running => (Len(calls) = 0 <=> EndsEarly)
    /\ Called => calls[1].method =
                    CASE verb = "GET" -> "get" [] verb = "POST" -> "post"
                      [] verb = "PUT" -> "put" [] verb = "PATCH" -> "patch"
                      [] OTHER -> "delete"

C2_Witness ==
    /\ pc = "done"
    /\ result.outcome = "returned"
    /\ ~result.envelope.isError
    /\ Len(calls) = 1

\* the caller's headers define this key
CallerDefines(key) == args.headers.present /\ key \in DOMAIN args.headers.map

TokenNonEmpty == args.token.kind = "string" /\ args.token.body # <<>>

\* the headers sent hold `Authorization: Bearer <token>`
SentIsBearer ==
    /\ TokenNonEmpty
    /\ "Authorization" \in DOMAIN SentHeaders
    /\ SentHeaders["Authorization"] = <<"Bearer ">> \o args.token.body

\* the caller's own Authorization is, atom for atom, `Bearer <token>`
CallerRepeatsBearer ==
    args.headers.map["Authorization"] = <<"Bearer ">> \o args.token.body

C4_CallerHeadersWin ==
    (Called /\ args.headers.present)
        => \A k \in DOMAIN args.headers.map :
              /\ k \in DOMAIN SentHeaders
              /\ SentHeaders[k] = args.headers.map[k]

\* the value POST, PUT and PATCH send for a value that is JSON text
ExpectedJsonData ==
    IF verb = "POST" THEN JSONParse(args.value.body).value ELSE args.value

\* options.data, undefined when the options have no data
SentData == IF "data" \in DOMAIN Sent THEN Sent["data"] ELSE Undefined

\* C5 as stated: a value that is JSON text is sent parsed by POST and as the
\* original string by PUT and PATCH, with Content-Type application/json set by
\* the tool; any value that is not such a string is passed through unchanged
\* as data by all three verbs.
C5_AsStated ==
    (Running /\ verb \in {"POST", "PUT", "PATCH"} /\ ~args.multipart.present)
        => /\ ValueIsGoodJson
                 => /\ Called
                    /\ SentData = ExpectedJsonData
                    /\ "Content-Type" \in DOMAIN SentHeaders
                    /\ ~CallerDefines("Content-Type")
                          => SentHeaders["Content-Type"] = <<"application/json">>
           /\ ~ValueIsGoodJson => (Called /\ SentData = args.value)

\* C5, amended: as stated, the second sentence for any value that is not a
\* string beginning with { or [ (such a string that is not JSON is not sent at
\* all), both sentences for POST without multipart.
C5_BodyEncoding ==
    (Running /\ verb \in {"POST", "PUT", "PATCH"} /\ ~args.multipart.present)
        => /\ ValueIsGoodJson
                 => /\ Called
                    /\ SentData = ExpectedJsonData
                    /\ "Content-Type" \in DOMAIN SentHeaders
                    /\ ~CallerDefines("Content-Type")
                          => SentHeaders["Content-Type"] = <<"application/json">>
           /\ (~ValueIsGoodJson /\ ~ValueIsBadJson)
                 => (Called /\ SentData = args.value)

C5_Witness ==
    /\ Called
    /\ verb = "PUT"
    /\ args.value = Str(<<"{", " ", "\"a\"", ":", " ", "1", " ", "}">>)
    /\ Sent["data"] = args.value
    /\ Sent["data"] # JSONParse(args.value.body).value

C5_WitnessPost ==
    /\ Called
    /\ verb = "POST"
    /\ args.value = Str(<<"{", " ", "\"a\"", ":", " ", "1", " ", "}">>)
    /\ Sent["data"] = JsVal("object", <<"{", "\"a\"", ":", "1", "}">>)

\* the closure returned the three summary lines
SummaryReturned ==
    /\ pc = "done"
    /\ result.outcome = "returned"
    /\ ~result.envelope.isError
    /\ Len(result.envelope.content) = 3

\* the third line of the summary
ThirdLine == result.envelope.content[3]

\* C6: for every verb and every response body of n characters, the third
\* line is `Response: `, then the first min(n, 1000) characters of the body,
\* then `...` exactly when n > 1000.
C6_Truncation ==
    textRead = "ok" =>
        LET n == Len(responseText)
            shown == IF n < 1000 THEN n ELSE 1000
        IN  /\ SummaryReturned
            /\ ThirdLine[1] = "Response: "
            /\ SubSeq(ThirdLine, 2, 1 + shown) = SubSeq(responseText, 1, shown)
            /\ n <= 1000 => Len(ThirdLine) = 1 + n
            /\ n > 1000 => /\ Len(ThirdLine) = 1 + 1000 + 1
                           /\ ThirdLine[1 + 1000 + 1] = "..."

C6_Witness ==
    /\ textRead = "ok"
    /\ verb = "PATCH"
    /\ Len(responseText) = 1001
    /\ Len(ThirdLine) = 1002
    /\ ThirdLine[1002] = "..."

C6_WitnessWhole ==
    /\ textRead = "ok"
    /\ Len(responseText) = 1000
    /\ Len(ThirdLine) = 1001
    /\ ThirdLine[1001] = responseText[1000]

\* C7: once the capability has returned a response, a failure of text()
\* never fails the invocation: it returns a success envelope of three lines,
\* the third being exactly `Response: Unable to get response text`.
C7_TextFailureMasked ==
    textRead = "failed" =>
        /\ SummaryReturned
        /\ result.envelope.content[1] = <<verb \o " request to ", args.url>>
        /\ result.envelope.content[2] =
              <<"Status: ", ToString(response.status), " ", response.statusText>>
        /\ ThirdLine =
              <<"Response: ", "U", "n", "a", "b", "l", "e", " ", "t", "o", " ",
                "g", "e", "t", " ", "r", "e", "s", "p", "o", "n", "s", "e", " ",
                "t", "e", "x", "t">>

C7_Witness ==
    /\ textRead = "failed"
    /\ verb = "GET"
    /\ response.status = 404
    /\ SummaryReturned

\* C8: in POST the options never hold both multipart and data; with
\* multipart, value is ignored (not parsed, not validated, not sent: a value
\* that does not parse is no error) and the tool sets no Content-Type; with
\* neither, the options hold the headers alone.
C8_MultipartOrData ==
    (Running /\ verb = "POST") =>
        /\ Called => ~("multipart" \in DOMAIN Sent /\ "data" \in DOMAIN Sent)
        /\ args.multipart.present =>
              /\ ~(result.outcome = "returned" /\ result.envelope.isError)
              /\ SomeFileUnreadable \/ Called
              /\ Called =>
                    /\ DOMAIN Sent = {"headers", "multipart"}
                    /\ "Content-Type" \in DOMAIN SentHeaders
                          => /\ CallerDefines("Content-Type")
                             /\ SentHeaders["Content-Type"] =
                                   args.headers.map["Content-Type"]
        /\ (~args.multipart.present /\ args.value = Undefined)
              => (Called /\ DOMAIN Sent = {"headers"})
        /\ (~args.multipart.present /\ args.value # Undefined /\ Called)
              => DOMAIN Sent = {"headers", "data"}

C8_Witness ==
    /\ verb = "POST"
    /\ Called
    /\ args.multipart.present
    /\ ValueIsBadJson
    /\ DOMAIN Sent = {"headers", "multipart"}

\* the atoms of path after its last "/"
LastSegment(path) ==
    LET slashes == {i \in 1..Len(path) : path[i] = "/"}
        last == IF slashes = {} THEN 0
                ELSE CHOOSE i \in slashes : \A j \in slashes : j <= i
    IN  SubSeq(path, last + 1, Len(path))

\* the supplied entry is a file descriptor: an object with a path
IsFileEntry(e) == e.value.val.kind = "object" /\ "path" \in DOMAIN e.value.props

\* what C9 says is sent for file entry e, a name or contentType counting as
\* explicit when `given` says so
FileAsClaimed(e, given(_, _)) ==
    LET p == e.value.props
    IN  [name     |-> IF given(p, "name") THEN p["name"]
                      ELSE Str(LastSegment(p["path"].body)),
         mimeType |-> IF given(p, "contentType") THEN p["contentType"]
                      ELSE Str(<<"application/octet-stream">>),
         buffer   |-> JsVal("Buffer", FsFiles[p["path"].body])]

\* the multipart sent is the multipart supplied, file entries as claimed
MultipartAsClaimed(given(_, _)) ==
    (Running /\ verb = "POST" /\ args.multipart.present /\ Called) =>
        /\ DOMAIN Sent["multipart"] =
              {args.multipart.entries[i].key : i \in DOMAIN args.multipart.entries}
        /\ \A i \in DOMAIN args.multipart.entries :
              LET e == args.multipart.entries[i]
                  out == Sent["multipart"][e.key]
              IN  IF IsFileEntry(e)
                  THEN /\ DOMAIN out = {"name", "mimeType", "buffer"}
                       /\ out = FileAsClaimed(e, given)
                  ELSE out = e.value

IsPresent(p, k) == k \in DOMAIN p

IsNonEmpty(p, k) == k \in DOMAIN p /\ p[k].kind = "string" /\ p[k].body # <<>>

\* C9 as stated: a file entry is sent as exactly {name, mimeType, buffer}, name
\* the explicit name or else the last segment of path, mimeType the explicit
\* contentType or else application/octet-stream, buffer the file's contents;
\* every other entry is sent unchanged; the keys sent are the keys supplied.
C9_AsStated == MultipartAsClaimed(IsPresent)

\* C9, amended: the same, an explicit name or contentType that is the empty
\* string counting as none.
C9_MultipartFields == MultipartAsClaimed(IsNonEmpty)

C9_Witness ==
    /\ verb = "POST"
    /\ Called
    /\ args.multipart.present
    /\ Len(args.multipart.entries) = 2
    /\ args.multipart.entries[1].value.props = ("path" :> Str(<<"/", "d", "/", "a.txt">>))
    /\ Sent["multipart"]["field1"] =
          [name |-> Str(<<"a.txt">>), mimeType |-> Str(<<"application/octet-stream">>),
           buffer |-> JsVal("Buffer", <<"A", "1">>)]
    /\ Sent["multipart"]["field2"] = Scalar(Str(<<"s">>))

\* the paths of the file entries of multipart, in order
RECURSIVE FilePaths(_, _)
FilePaths(entries, i) ==
    IF i > Len(entries) THEN <<>>
    ELSE (IF IsFileEntry(entries[i]) THEN <<entries[i].value.props["path"].body>> ELSE <<>>)
            \o FilePaths(entries, i + 1)

\* C10: in POST with multipart every file is read before the capability is
\* called; if a file cannot be read the failure leaves the closure (no
\* envelope) and the capability is not called: no request goes out with part
\* of the fields.
C10_AllFilesOrNothing ==
    (Running /\ verb = "POST" /\ args.multipart.present) =>
        /\ Called =>
              /\ reads = FilePaths(args.multipart.entries, 1)
              /\ \A i \in DOMAIN reads : reads[i] \in DOMAIN FsFiles
        /\ SomeFileUnreadable =>
              /\ pc = "done"
              /\ result.outcome = "thrown"
              /\ result.envelope = NoEnvelope
              /\ calls = <<>>

C10_Witness ==
    /\ verb = "POST"
    /\ Len(args.multipart.entries) = 2
    /\ reads = << <<"b.bin">>, <<"/", "d", "/", "missing">> >>
    /\ result.outcome = "thrown"
    /\ calls = <<>>

====
